---- MODULE Spec2Model ----
(***************************************************************************)
(* State-machine model of the wardrobe client: the Virtual Closet view     *)
(* (upload pipeline, category loader, item deletion over localStorage),    *)
(* the router and the authentication context it runs under, the outfit     *)
(* and feedback history views over the backend API, and the two wardrobe   *)
(* endpoints of the backend.                                               *)
(***************************************************************************)
EXTENDS Integers, Sequences, FiniteSets, TLC

\* ---------------------------------------------------------------- bounds
MaxFiles == 2      \* longest upload batch
MaxBatches == 2    \* upload batches started in one run
MaxClock == 1      \* largest value of Date.now()

FileNames == {"a.jpg", "b.jpg"}
Users == {"u1", "u2"}
NoUser == "none"

\* ------------------------------------------------------- program constants
tabs == <<"Tops", "Bottoms", "Shoes">>
Routes == {"/", "/closet", "/outfit"}

toLowerCase(s) ==
  CASE s = "Tops" -> "tops"
    [] s = "Bottoms" -> "bottoms"
    [] s = "Shoes" -> "shoes"
    [] OTHER -> s

RangeOf(f) == {f[x] : x \in DOMAIN f}
\* File names are interchangeable, so every batch starts with "a.jpg".
FileLists ==
  {f \in UNION {[1..n -> FileNames] : n \in 1..MaxFiles} : f[1] = "a.jpg"}
SingleFile == {f \in FileLists : Len(f) = 1}

VARIABLES
  route,          \* the route the router shows
  user,           \* AuthContext: the authenticated user, or NoUser
  selectedTab,    \* VirtualCloset state
  uploadedItems,  \* VirtualCloset state: the visible item list
  uploading,      \* VirtualCloset state
  uploadProgress, \* VirtualCloset state
  storage,        \* localStorage['wardrobe_items']
  batches,        \* handleFiles calls suspended at their await
  started,        \* number of batches started so far
  now,            \* Date.now()
  ev,             \* what the last step did (observation only)
  ended,          \* summary of the batch the last step ended (observation only)
  hasOutfit,      \* OutfitRecommendation state
  loading,        \* OutfitRecommendation state
  error,          \* OutfitRecommendation state
  currentOutfit,  \* OutfitRecommendation state
  scenario,       \* OutfitRecommendation state
  isSaved,        \* OutfitRecommendation state
  savedOutfitId,  \* OutfitRecommendation state
  swappingSlot,   \* OutfitRecommendation state
  userFeedback,   \* OutfitRecommendation state
  feedbackList,   \* FeedbackHistory state
  fbLoading,      \* FeedbackHistory state: loading
  fbError,        \* FeedbackHistory state: error
  deletingId,     \* FeedbackHistory state
  reqs,           \* fetch() calls of the two views that have not resolved
  srvSaved,       \* backend: saved_outfits records
  srvFeedback,    \* backend: feedback records
  srvItems,       \* backend: wardrobe_items rows
  resp            \* backend: the answer to the last wardrobe request

closetVars == <<selectedTab, uploadedItems, uploading, uploadProgress,
                storage, batches, started, now, ended>>
outfitVars == <<hasOutfit, loading, error, currentOutfit, scenario, isSaved,
                savedOutfitId, swappingSlot, userFeedback>>
feedbackVars == <<feedbackList, fbLoading, fbError, deletingId>>
serverVars == <<reqs, srvSaved, srvFeedback>>
backendVars == <<srvItems, resp>>
viewVars == <<outfitVars, feedbackVars, serverVars>>

vars == <<route, user, ev, closetVars, viewVars, backendVars>>

\* ------------------------------------------------------------ localStorage
NullStorage == [kind |-> "null", items |-> <<>>]
Garbage == [kind |-> "garbage", items |-> <<>>]
JSONstringify(xs) == [kind |-> "json", items |-> xs]
Truthy(s) == s.kind # "null"
ParseThrows(s) == s.kind # "json"
JSONparse(s) == s.items

FilterCategory(xs, c) == SelectSeq(xs, LAMBDA it : it.category = c)
FilterOutId(xs, x) == SelectSeq(xs, LAMBDA it : it.id # x)

\* ------------------------------------------------------------ observation
NoEv == [type |-> "none", id |-> -1, ok |-> TRUE, loads |-> <<>>, alert |-> "none",
         snap |-> <<>>, banner |-> FALSE]
NoEnded == [n |-> 0, submitted |-> 0, succ |-> 0, stored |-> 0, failed |-> FALSE,
            live |-> FALSE, clean |-> FALSE, startLen |-> 0, endLen |-> 0,
            made |-> <<>>, startList |-> <<>>, prog |-> <<>>]

\* ------------------------------------------------------------- loadItems
\* A loader that shows the stored items of every category.
loadItems_Unfiltered(tab, prev) ==
  IF Truthy(storage) /\ ~ParseThrows(storage) THEN JSONparse(storage) ELSE prev

\* The list loadItems leaves in uploadedItems, given the list before.
loadItems(tab, prev) ==
  IF Truthy(storage) /\ ~ParseThrows(storage)
    THEN FilterCategory(JSONparse(storage), toLowerCase(tab))
    ELSE prev

Null == "null"
NoResp == [endpoint |-> "none", user_id |-> "u1", status |-> 0, success |-> FALSE,
           data |-> <<>>]
NullId == 0      \* null where record ids (positive numbers) are held
InitViews ==
  /\ hasOutfit = FALSE
  /\ loading = FALSE
  /\ error = Null
  /\ currentOutfit = Null
  /\ scenario = ""
  /\ isSaved = FALSE
  /\ savedOutfitId = NullId
  /\ swappingSlot = Null
  /\ userFeedback = Null
  /\ feedbackList = <<>>
  /\ fbLoading = FALSE
  /\ fbError = Null
  /\ deletingId = NullId
  /\ reqs = <<>>
  /\ srvSaved = {}
  /\ srvFeedback = {}
  /\ srvItems = {}
  /\ resp = NoResp

\* The Virtual Closet view just mounted for a signed-in user, nothing stored.
Init ==
  /\ route = "/closet"
  /\ user = "u1"
  /\ selectedTab = "Tops"
  /\ uploadedItems = <<>>
  /\ uploading = FALSE
  /\ uploadProgress = <<>>
  /\ storage = NullStorage
  /\ batches = <<>>
  /\ started = 0
  /\ now = 0
  /\ ev = NoEv
  /\ ended = NoEnded
  /\ InitViews

\* Every suspended batch of the leaving view instance loses its component.
Orphaned(bs) == [k \in DOMAIN bs |-> [bs[k] EXCEPT !.live = FALSE]]
\* A list change that is not the batch's own prepend.
Disturbed(bs) == [k \in DOMAIN bs |-> [bs[k] EXCEPT !.clean = FALSE]]

Navigate(to) ==
  /\ to \in Routes
  /\ to # route
  /\ route' = to
  /\ selectedTab' = "Tops"
  /\ uploading' = FALSE
  /\ uploadProgress' = <<>>
  /\ uploadedItems' = IF to = "/closet" THEN loadItems("Tops", <<>>) ELSE <<>>
  /\ batches' = Orphaned(batches)
  /\ ev' = [NoEv EXCEPT !.type = "navigate",
                        !.loads = IF to = "/closet" THEN <<"tops">> ELSE <<>>]
  /\ ended' = NoEnded
  /\ UNCHANGED <<user, storage, started, now>>
  /\ UNCHANGED <<viewVars, backendVars>>

Tick ==
  /\ now < MaxClock
  /\ now' = now + 1
  /\ ev' = NoEv
  /\ ended' = NoEnded
  /\ UNCHANGED <<route, user, selectedTab, uploadedItems, uploading,
                 uploadProgress, storage, batches, started>>
  /\ UNCHANGED <<viewVars, backendVars>>

\* ------------------------------------------------------------- handleFiles
RemoveAt(bs, k) == [j \in 1..(Len(bs) - 1) |-> IF j < k THEN bs[j] ELSE bs[j + 1]]

\* The request a suspended batch is waiting for: uploadToCloudinary(file).
UploadRequest(b) == [kind |-> "upload", file |-> b.files[b.i], user_id |-> NoUser]

\* A progress entry that is completed from the start.
ProgressEntry_Completed(name) == [name |-> name, status |-> "completed"]

\* { name: file.name, status: 'uploading' }
ProgressEntry(name) == [name |-> name, status |-> "uploading"]

\* prev.map(p => p.name === file.name ? { ...p, status: 'completed' } : p)
MarkCompleted(prog, name) ==
  [j \in DOMAIN prog |->
     IF prog[j].name = name THEN [prog[j] EXCEPT !.status = "completed"] ELSE prog[j]]

\* A state update that drops the new item.
Prepend_Dropped(it, prev) == prev

\* setUploadedItems(prev => [newItem, ...prev])
Prepend(it, prev) == <<it>> \o prev

\* A write that puts the new item alone in the collection.
unshift_Alone(it, allItems) == <<it>>

\* allItems.unshift(newItem)
unshift(it, allItems) == <<it>> \o allItems

\* An item that keeps the tab name as it is displayed.
newItem_TabName(b) ==
  [id |-> now + (b.i - 1),
   category |-> b.tab,
   file_name |-> b.files[b.i],
   by |-> b.by]

newItem(b) ==
  [id |-> now + (b.i - 1),
   category |-> toLowerCase(b.tab),
   file_name |-> b.files[b.i],
   by |-> b.by]

\* An end of batch that leaves the view in the uploading state.
EndBatch_StaysBusy(k, failed, succ, stored, submitted, list, made, prog) ==
  LET b == batches[k] IN
  /\ batches' = RemoveAt(batches, k)
  /\ UNCHANGED uploading
  /\ uploadProgress' = IF b.live THEN <<>> ELSE uploadProgress
  /\ ended' = [n |-> Len(b.files), submitted |-> submitted, succ |-> succ,
               stored |-> stored, failed |-> failed, live |-> b.live, clean |-> b.clean,
               startLen |-> b.startLen, endLen |-> Len(list),
               made |-> made, startList |-> b.startList, prog |-> prog]

\* An end of batch that resets the flag and keeps the progress entries.
EndBatch_KeepsProgress(k, failed, succ, stored, submitted, list, made, prog) ==
  LET b == batches[k] IN
  /\ batches' = RemoveAt(batches, k)
  /\ uploading' = IF b.live THEN FALSE ELSE uploading
  /\ uploadProgress' = IF b.live THEN prog ELSE uploadProgress
  /\ ended' = [n |-> Len(b.files), submitted |-> submitted, succ |-> succ,
               stored |-> stored, failed |-> failed, live |-> b.live, clean |-> b.clean,
               startLen |-> b.startLen, endLen |-> Len(list),
               made |-> made, startList |-> b.startList, prog |-> prog]

\* catch/finally of handleFiles, and the end of the loop: the batch is over.
EndBatch(k, failed, succ, stored, submitted, list, made, prog) ==
  LET b == batches[k] IN
  /\ batches' = RemoveAt(batches, k)
  /\ uploading' = IF b.live THEN FALSE ELSE uploading
  /\ uploadProgress' = IF b.live THEN <<>> ELSE uploadProgress
  /\ ended' = [n |-> Len(b.files), submitted |-> submitted, succ |-> succ,
               stored |-> stored, failed |-> failed, live |-> b.live, clean |-> b.clean,
               startLen |-> b.startLen, endLen |-> Len(list),
               made |-> made, startList |-> b.startList, prog |-> prog]

\* handleDrop / handleFileInput -> handleFiles, up to the first await.
StartBatch(files) ==
  /\ route = "/closet"
  /\ ~uploading
  /\ started < MaxBatches
  /\ started' = started + 1
  /\ uploading' = TRUE
  /\ uploadProgress' = Append(uploadProgress, ProgressEntry(files[1]))
  /\ batches' = Append(batches,
        [files |-> files, i |-> 1, tab |-> selectedTab, by |-> user,
         live |-> TRUE, clean |-> TRUE, succ |-> 0,
         startLen |-> Len(uploadedItems),
         made |-> <<>>, startList |-> uploadedItems])
  /\ ev' = [NoEv EXCEPT !.type = "start"]
  /\ ended' = NoEnded
  /\ UNCHANGED <<route, user, selectedTab, uploadedItems, storage, now>>
  /\ UNCHANGED <<viewVars, backendVars>>

\* uploadToCloudinary resolved: the loop body after the await, then either
\* the next iteration up to its await, or the end of the batch.
UploadResolves(k) ==
  /\ k \in DOMAIN batches
  /\ LET b == batches[k]
         it == newItem(b)
         allItems == IF Truthy(storage) THEN JSONparse(storage) ELSE <<>>
         list == IF b.live THEN Prepend(it, uploadedItems) ELSE uploadedItems
         prog == IF b.live THEN MarkCompleted(uploadProgress, b.files[b.i])
                           ELSE uploadProgress
     IN
     IF Truthy(storage) /\ ParseThrows(storage)
       THEN /\ EndBatch(k, TRUE, b.succ + 1, b.succ, b.i, uploadedItems, b.made,
                            uploadProgress)
            /\ ev' = [NoEv EXCEPT !.type = "resolve", !.ok = FALSE,
                                  !.alert = "upload_failed"]
            /\ UNCHANGED <<uploadedItems, storage>>
       ELSE /\ storage' = JSONstringify(unshift(it, allItems))
            /\ uploadedItems' = list
            /\ IF b.i < Len(b.files)
                 THEN /\ batches' = [batches EXCEPT ![k].i = b.i + 1,
                                                    ![k].succ = b.succ + 1,
                                                    ![k].made = Append(b.made, it)]
                      /\ uploadProgress' =
                           IF b.live
                             THEN Append(prog, ProgressEntry(b.files[b.i + 1]))
                             ELSE uploadProgress
                      /\ ev' = [NoEv EXCEPT !.type = "resolve", !.id = it.id]
                      /\ ended' = NoEnded
                      /\ UNCHANGED uploading
                 ELSE /\ EndBatch(k, FALSE, b.succ + 1, b.succ + 1, b.i, list,
                                   Append(b.made, it), prog)
                      /\ ev' = [NoEv EXCEPT !.type = "resolve", !.id = it.id,
                                            !.alert = "uploaded"]
  /\ UNCHANGED <<route, user, selectedTab, started, now>>
  /\ UNCHANGED <<viewVars, backendVars>>

\* uploadToCloudinary rejected: the exception leaves the loop.
UploadRejects(k) ==
  /\ k \in DOMAIN batches
  /\ EndBatch(k, TRUE, batches[k].succ, batches[k].succ, batches[k].i, uploadedItems,
              batches[k].made, uploadProgress)
  /\ ev' = [NoEv EXCEPT !.type = "reject", !.ok = FALSE, !.alert = "upload_failed"]
  /\ UNCHANGED <<route, user, selectedTab, uploadedItems, storage, started, now>>
  /\ UNCHANGED <<viewVars, backendVars>>

\* --------------------------------------------------------- handleDeleteItem
handleDeleteItem(idx, confirmed) ==
  /\ route = "/closet"
  /\ idx \in DOMAIN uploadedItems
  /\ LET itemId == uploadedItems[idx].id IN
     IF ~confirmed
       THEN /\ ev' = [NoEv EXCEPT !.type = "delete_cancelled", !.id = itemId]
            /\ UNCHANGED <<uploadedItems, storage, batches>>
       ELSE IF Truthy(storage) /\ ParseThrows(storage)
         THEN /\ ev' = [NoEv EXCEPT !.type = "delete", !.id = itemId, !.ok = FALSE,
                                    !.alert = "delete_failed"]
              /\ UNCHANGED <<uploadedItems, storage, batches>>
         ELSE /\ storage' = IF Truthy(storage)
                              THEN JSONstringify(FilterOutId(JSONparse(storage), itemId))
                              ELSE storage
              /\ uploadedItems' = FilterOutId(uploadedItems, itemId)
              /\ batches' = Disturbed(batches)
              /\ ev' = [NoEv EXCEPT !.type = "delete", !.id = itemId,
                                    !.alert = "deleted"]
  /\ ended' = NoEnded
  /\ UNCHANGED <<route, user, selectedTab, uploading, uploadProgress, started, now>>
  /\ UNCHANGED <<viewVars, backendVars>>

\* --------------------------------------------- tab buttons + useEffect
TabClick(tab) ==
  /\ route = "/closet"
  /\ tab \in RangeOf(tabs)
  /\ selectedTab' = tab
  /\ IF tab # selectedTab
       THEN /\ uploadedItems' = loadItems(tab, uploadedItems)
            /\ batches' = Disturbed(batches)
            /\ ev' = [NoEv EXCEPT !.type = "tab", !.loads = <<toLowerCase(tab)>>,
                        !.ok = Truthy(storage) /\ ~ParseThrows(storage)]
       ELSE /\ ev' = [NoEv EXCEPT !.type = "tab"]
            /\ UNCHANGED <<uploadedItems, batches>>
  /\ ended' = NoEnded
  /\ UNCHANGED <<route, user, uploading, uploadProgress, storage, started, now>>
  /\ UNCHANGED <<viewVars, backendVars>>

\* ------------------------------------------------------------ AuthContext
\* AuthModal.handleSubmit: sign in, then window.location.reload().
SignIn(u) ==
  /\ route = "/"
  /\ user = NoUser
  /\ u \in Users
  /\ user' = u
  /\ batches' = <<>>
  /\ ev' = [NoEv EXCEPT !.type = "signin"]
  /\ ended' = NoEnded
  /\ UNCHANGED <<route, selectedTab, uploadedItems, uploading, uploadProgress,
                 storage, started, now>>
  /\ UNCHANGED <<viewVars, backendVars>>

signOut ==
  /\ route = "/outfit"
  /\ user # NoUser
  /\ user' = NoUser
  /\ ev' = [NoEv EXCEPT !.type = "signout"]
  /\ ended' = NoEnded
  /\ UNCHANGED <<route, selectedTab, uploadedItems, uploading, uploadProgress,
                 storage, batches, started, now>>
  /\ UNCHANGED <<viewVars, backendVars>>

\* The Virtual Closet view while it stays mounted.
Next ==
  \/ \E files \in FileLists : StartBatch(files)
  \/ \E k \in DOMAIN batches : UploadResolves(k)
  \/ \E k \in DOMAIN batches : UploadRejects(k)
  \/ \E idx \in DOMAIN uploadedItems, c \in BOOLEAN : handleDeleteItem(idx, c)
  \/ \E tab \in RangeOf(tabs) : TabClick(tab)
  \/ Tick

Spec == Init /\ [][Next]_vars

\* The whole client: the application opens on the home page, signed out.
InitApp ==
  /\ route = "/"
  /\ user = NoUser
  /\ selectedTab = "Tops"
  /\ uploadedItems = <<>>
  /\ uploading = FALSE
  /\ uploadProgress = <<>>
  /\ storage = NullStorage
  /\ batches = <<>>
  /\ started = 0
  /\ now = 0
  /\ ev = NoEv
  /\ ended = NoEnded
  /\ InitViews

NextApp ==
  \/ \E to \in Routes : Navigate(to)
  \/ \E u \in Users : SignIn(u)
  \/ signOut
  \/ \E files \in SingleFile : StartBatch(files)
  \/ \E k \in DOMAIN batches : UploadResolves(k)
  \/ \E k \in DOMAIN batches : UploadRejects(k)
  \/ \E idx \in DOMAIN uploadedItems, c \in BOOLEAN : handleDeleteItem(idx, c)
  \/ \E tab \in RangeOf(tabs) : TabClick(tab)

SpecApp == InitApp /\ [][NextApp]_vars

\* The mounted view with a localStorage that other pages of the origin, or the
\* user, may clear or overwrite.
StorageLost(s) ==
  /\ s \in {NullStorage, Garbage}
  /\ s # storage
  /\ storage' = s
  /\ ev' = NoEv
  /\ ended' = NoEnded
  /\ UNCHANGED <<route, user, selectedTab, uploadedItems, uploading,
                 uploadProgress, batches, started, now>>
  /\ UNCHANGED <<viewVars, backendVars>>

NextEnv ==
  \/ \E files \in FileLists : StartBatch(files)
  \/ \E k \in DOMAIN batches : UploadResolves(k)
  \/ \E k \in DOMAIN batches : UploadRejects(k)
  \/ \E idx \in DOMAIN uploadedItems, c \in BOOLEAN : handleDeleteItem(idx, c)
  \/ \E tab \in RangeOf(tabs) : TabClick(tab)
  \/ \E s \in {NullStorage, Garbage} : StorageLost(s)

SpecEnv == Init /\ [][NextEnv]_vars

\* The mounted view when every call of uploadToCloudinary settles: the
\* continuation of a suspended handleFiles is run once its promise has
\* resolved or rejected.
UploadSettles == \E k \in DOMAIN batches : UploadResolves(k) \/ UploadRejects(k)

NextLive ==
  \/ \E files \in FileLists : StartBatch(files)
  \/ \E k \in DOMAIN batches : UploadResolves(k)
  \/ \E k \in DOMAIN batches : UploadRejects(k)
  \/ \E idx \in DOMAIN uploadedItems, c \in BOOLEAN : handleDeleteItem(idx, c)
  \/ \E tab \in RangeOf(tabs) : TabClick(tab)

SpecLive == Init /\ [][NextLive]_vars /\ WF_vars(UploadSettles)

\* ===================================================================
\* The outfit view and the feedback history view over the backend API
\* ===================================================================
MaxInFlight == 2   \* fetch() calls pending at one time
MaxSaved == 1      \* saved_outfits records ever created
MaxFeedback == 1   \* feedback records ever created

Outfits == {"o1", "o2"}
Slots == {"tops"}
Ratings == {"like"}
Scenarios == {"", "date night"}

\* String.prototype.trim, on the scenarios of the model.
trim(s) == IF s = "   " THEN "" ELSE s

\* The outfit view can be opened signed in or signed out: no route is guarded.
ViewsInit ==
  /\ route = "/outfit"
  /\ user \in {"u1", NoUser}
  /\ selectedTab = "Tops"
  /\ uploadedItems = <<>>
  /\ uploading = FALSE
  /\ uploadProgress = <<>>
  /\ storage = NullStorage
  /\ batches = <<>>
  /\ started = 0
  /\ now = 0
  /\ ev = NoEv
  /\ ended = NoEnded
  /\ InitViews

Request(view, kind, arg, uid, snap) ==
  [view |-> view, kind |-> kind, arg |-> arg, user_id |-> uid,
   phase |-> "sent", ok |-> FALSE, data |-> <<>>, live |-> TRUE, snap |-> snap]

CanSend == Len(reqs) < MaxInFlight

\* The requests whose component has been unmounted resolve into nothing.
Detached(rs) == [k \in DOMAIN rs |-> [rs[k] EXCEPT !.live = FALSE]]

SortedIds(S) ==
  LET RECURSIVE build(_)
      build(T) == IF T = {} THEN <<>>
                  ELSE LET m == CHOOSE x \in T : \A y \in T : x <= y
                       IN <<m>> \o build(T \ {m})
  IN build(S)

\* ------------------------------------------------------------- backend
\* How a request ends: answered with success, answered with success:false (or
\* a non-2xx status), processed with the answer lost on the way back, or
\* never delivered. In the last two cases fetch() rejects.
Outcomes == {"ok", "refused", "lost", "unreached"}
Succeeded(o) == o = "ok"
Thrown(o) == o \in {"lost", "unreached"}
Applied(o) == o \in {"ok", "lost"}

freshSaved == CHOOSE x \in 1..(MaxSaved + 1) : x \notin {rec.id : rec \in srvSaved}
freshFb == CHOOSE x \in 1..(MaxFeedback + 1) : x \notin {f.id : f \in srvFeedback}

\* The effect of a processed request on the backend tables.
srvSavedAfter(r, o) ==
  IF ~Applied(o) THEN srvSaved
  ELSE IF r.kind = "save"
    THEN srvSaved \cup {[id |-> freshSaved, outfit |-> r.arg, user_id |-> r.user_id]}
  ELSE IF r.kind = "unsave" THEN {rec \in srvSaved : rec.id # r.arg}
  ELSE srvSaved

srvFeedbackAfter(r, o) ==
  IF ~Applied(o) THEN srvFeedback
  ELSE IF r.kind = "feedback"
    THEN srvFeedback \cup {[id |-> freshFb, user_id |-> r.user_id]}
  ELSE IF r.kind = "delete" THEN {f \in srvFeedback : f.id # r.arg}
  ELSE IF r.kind = "clear" THEN {f \in srvFeedback : f.user_id # r.arg}
  ELSE srvFeedback

\* The backend cannot create a record beyond the bounds of the model.
Possible(r, o) ==
  /\ o \in Outcomes
  /\ (r.kind = "save" /\ Applied(o)) => Cardinality(srvSaved) < MaxSaved
  /\ (r.kind = "feedback" /\ Applied(o)) => Cardinality(srvFeedback) < MaxFeedback

Resolvable(k, kind, o) ==
  /\ k \in DOMAIN reqs
  /\ reqs[k].kind = kind
  /\ reqs[k].live
  /\ Possible(reqs[k], o)

\* GET /feedback/{user_id}: the answer is computed when the backend handles the
\* request and reaches the client later.
ServerAnswersList(k) ==
  /\ k \in DOMAIN reqs
  /\ reqs[k].kind = "list"
  /\ reqs[k].phase = "sent"
  /\ reqs' = [reqs EXCEPT ![k].phase = "answered",
                ![k].data = SortedIds({f.id : f \in {g \in srvFeedback : g.user_id = reqs[k].arg}})]
  /\ ev' = NoEv
  /\ UNCHANGED <<backendVars, route, user, closetVars, outfitVars, feedbackVars, srvSaved, srvFeedback>>

\* The end of a request whose component is gone: only the backend changes.
DetachedResolves(k, o) ==
  /\ k \in DOMAIN reqs
  /\ ~reqs[k].live
  /\ Possible(reqs[k], o)
  /\ reqs' = RemoveAt(reqs, k)
  /\ srvSaved' = srvSavedAfter(reqs[k], o)
  /\ srvFeedback' = srvFeedbackAfter(reqs[k], o)
  /\ ev' = NoEv
  /\ UNCHANGED <<backendVars, route, user, closetVars, outfitVars, feedbackVars>>

\* ------------------------------------------------- OutfitRecommendation
setScenario(s) ==
  /\ route = "/outfit"
  /\ s \in Scenarios
  /\ s # scenario
  /\ scenario' = s
  /\ ev' = NoEv
  /\ UNCHANGED <<backendVars, route, user, closetVars, feedbackVars, serverVars, hasOutfit, loading,
                 error, currentOutfit, isSaved, savedOutfitId, swappingSlot, userFeedback>>

\* The Generate button is disabled while loading or without a scenario; the
\* Regenerate button of a displayed outfit is never disabled.
handleRecommend ==
  /\ route = "/outfit"
  /\ ~loading \/ hasOutfit
  /\ trim(scenario) # ""
  /\ CanSend
  /\ loading' = TRUE
  /\ error' = Null
  /\ userFeedback' = Null
  /\ isSaved' = FALSE
  /\ savedOutfitId' = NullId
  /\ reqs' = Append(reqs, Request("outfit", "recommend", scenario, user, <<>>))
  /\ ev' = NoEv
  /\ UNCHANGED <<backendVars, route, user, closetVars, feedbackVars, srvSaved, srvFeedback,
                 hasOutfit, currentOutfit, scenario, swappingSlot>>

\* Nothing orders the answers: each answer that arrives is applied. A request
\* still in flight that was issued before one whose answer has been displayed
\* is recorded as overtaken (the requests of reqs stand in the order of issue).
RecommendResolves(k, o, outfit) ==
  /\ Resolvable(k, "recommend", o)
  /\ outfit \in Outfits
  /\ IF Succeeded(o)
       THEN /\ currentOutfit' = outfit
            /\ hasOutfit' = TRUE
            /\ UNCHANGED error
       ELSE /\ error' = IF Thrown(o) THEN "Failed to fetch" ELSE "Failed to generate"
            /\ UNCHANGED <<currentOutfit, hasOutfit>>
  /\ loading' = FALSE
  /\ reqs' = RemoveAt([j \in DOMAIN reqs |->
                         IF Succeeded(o) /\ j < k /\ reqs[j].kind = "recommend" /\ reqs[j].live
                           THEN [reqs[j] EXCEPT !.snap = <<"overtaken">>]
                           ELSE reqs[j]], k)
  /\ ev' = [NoEv EXCEPT !.type = "recommend_done", !.ok = Succeeded(o),
                        !.snap = reqs[k].snap,
                        !.banner = ~Succeeded(o)]
  /\ UNCHANGED <<backendVars, route, user, closetVars, feedbackVars, srvSaved, srvFeedback,
                 scenario, isSaved, savedOutfitId, swappingSlot, userFeedback>>

\* The Save button of a displayed outfit: unsave when saved, save otherwise.
handleSaveOutfit ==
  /\ route = "/outfit"
  /\ hasOutfit
  /\ CanSend
  /\ loading' = TRUE
  /\ reqs' = Append(reqs,
       IF isSaved /\ savedOutfitId # NullId
         THEN Request("outfit", "unsave", savedOutfitId, NoUser, <<isSaved, savedOutfitId>>)
         ELSE Request("outfit", "save", currentOutfit, user, <<>>))
  /\ ev' = NoEv
  /\ UNCHANGED <<backendVars, route, user, closetVars, feedbackVars, srvSaved, srvFeedback, hasOutfit,
                 error, currentOutfit, scenario, isSaved, savedOutfitId, swappingSlot,
                 userFeedback>>

\* An unsave that clears the flag and keeps the record id.
UnsaveResolves_KeepsId(k, o) ==
  /\ Resolvable(k, "unsave", o)
  /\ IF Succeeded(o)
       THEN /\ isSaved' = FALSE
            /\ UNCHANGED <<savedOutfitId, error>>
       ELSE /\ error' = IF Thrown(o) THEN "Failed to fetch" ELSE "Failed to unsave"
            /\ UNCHANGED <<isSaved, savedOutfitId>>
  /\ loading' = FALSE
  /\ reqs' = RemoveAt(reqs, k)
  /\ srvSaved' = srvSavedAfter(reqs[k], o)
  /\ ev' = [NoEv EXCEPT !.type = "unsave_done", !.ok = Succeeded(o),
                        !.id = reqs[k].arg, !.snap = reqs[k].snap,
                        !.banner = ~Succeeded(o)]
  /\ UNCHANGED <<backendVars, route, user, closetVars, feedbackVars, srvFeedback, hasOutfit,
                 currentOutfit, scenario, swappingSlot, userFeedback>>

UnsaveResolves(k, o) ==
  /\ Resolvable(k, "unsave", o)
  /\ IF Succeeded(o)
       THEN /\ isSaved' = FALSE
            /\ savedOutfitId' = NullId
            /\ UNCHANGED error
       ELSE /\ error' = IF Thrown(o) THEN "Failed to fetch" ELSE "Failed to unsave"
            /\ UNCHANGED <<isSaved, savedOutfitId>>
  /\ loading' = FALSE
  /\ reqs' = RemoveAt(reqs, k)
  /\ srvSaved' = srvSavedAfter(reqs[k], o)
  /\ ev' = [NoEv EXCEPT !.type = "unsave_done", !.ok = Succeeded(o),
                        !.id = reqs[k].arg, !.snap = reqs[k].snap,
                        !.banner = ~Succeeded(o)]
  /\ UNCHANGED <<backendVars, route, user, closetVars, feedbackVars, srvFeedback, hasOutfit,
                 currentOutfit, scenario, swappingSlot, userFeedback>>

\* result.data[0].id of a success answer whose data list is empty throws after
\* setIsSaved(true) has run.
SaveResolves(k, o, withData) ==
  /\ Resolvable(k, "save", o)
  /\ withData \in BOOLEAN
  /\ IF Succeeded(o)
       THEN /\ isSaved' = TRUE
            /\ IF withData
                 THEN /\ savedOutfitId' = freshSaved
                      /\ UNCHANGED error
                 ELSE /\ error' = "Cannot read properties of undefined"
                      /\ UNCHANGED savedOutfitId
       ELSE /\ error' = IF Thrown(o) THEN "Failed to fetch" ELSE "Failed to save"
            /\ UNCHANGED <<isSaved, savedOutfitId>>
  /\ loading' = FALSE
  /\ reqs' = RemoveAt(reqs, k)
  /\ srvSaved' = srvSavedAfter(reqs[k], o)
  /\ ev' = [NoEv EXCEPT !.type = "save_done", !.ok = Succeeded(o) /\ withData,
                        !.id = IF Succeeded(o) /\ withData THEN freshSaved ELSE -1,
                        !.banner = ~(Succeeded(o) /\ withData)]
  /\ UNCHANGED <<backendVars, route, user, closetVars, feedbackVars, srvFeedback, hasOutfit,
                 currentOutfit, scenario, swappingSlot, userFeedback>>

\* The swap button of an item card is disabled while its slot is being swapped.
handleSwapItem(slot) ==
  /\ route = "/outfit"
  /\ hasOutfit
  /\ slot \in Slots
  /\ swappingSlot # slot
  /\ CanSend
  /\ swappingSlot' = slot
  /\ reqs' = Append(reqs, Request("outfit", "swap", slot, user, <<>>))
  /\ ev' = NoEv
  /\ UNCHANGED <<backendVars, route, user, closetVars, feedbackVars, srvSaved, srvFeedback, hasOutfit,
                 loading, error, currentOutfit, scenario, isSaved, savedOutfitId,
                 userFeedback>>

SwapResolves(k, o, outfit) ==
  /\ Resolvable(k, "swap", o)
  /\ outfit \in Outfits
  /\ IF Succeeded(o)
       THEN /\ currentOutfit' = outfit
            /\ UNCHANGED error
       ELSE /\ error' = IF Thrown(o) THEN "Failed to fetch" ELSE "Failed to swap item"
            /\ UNCHANGED currentOutfit
  /\ swappingSlot' = Null
  /\ reqs' = RemoveAt(reqs, k)
  /\ ev' = [NoEv EXCEPT !.type = "swap_done", !.ok = Succeeded(o),
                        !.banner = ~Succeeded(o)]
  /\ UNCHANGED <<backendVars, route, user, closetVars, feedbackVars, srvSaved, srvFeedback, hasOutfit,
                 loading, scenario, isSaved, savedOutfitId, userFeedback>>

handleFeedback(rating) ==
  /\ route = "/outfit"
  /\ hasOutfit
  /\ rating \in Ratings
  /\ CanSend
  /\ reqs' = Append(reqs, Request("outfit", "feedback", rating, user, <<>>))
  /\ ev' = NoEv
  /\ UNCHANGED <<backendVars, route, user, closetVars, feedbackVars, srvSaved, srvFeedback, outfitVars>>

\* A failed feedback request is only logged to the console.
FeedbackResolves(k, o) ==
  /\ Resolvable(k, "feedback", o)
  /\ userFeedback' = IF Succeeded(o) THEN reqs[k].arg ELSE userFeedback
  /\ reqs' = RemoveAt(reqs, k)
  /\ srvFeedback' = srvFeedbackAfter(reqs[k], o)
  /\ ev' = [NoEv EXCEPT !.type = "feedback_done", !.ok = Succeeded(o)]
  /\ UNCHANGED <<backendVars, route, user, closetVars, feedbackVars, srvSaved, hasOutfit,
                 loading, error, currentOutfit, scenario, isSaved, savedOutfitId,
                 swappingSlot>>

\* ------------------------------------------------------- FeedbackHistory
\* fetchFeedback as called by the mount effect and by the Refresh button.
SendList(rs) == Append(rs, Request("feedback", "list", user, user, <<>>))

fetchFeedback ==
  /\ route = "/feedback-history"
  /\ ~fbLoading
  /\ user # NoUser
  /\ CanSend
  /\ fbLoading' = TRUE
  /\ fbError' = Null
  /\ reqs' = SendList(reqs)
  /\ ev' = NoEv
  /\ UNCHANGED <<backendVars, route, user, closetVars, outfitVars, srvSaved, srvFeedback,
                 feedbackList, deletingId>>

ListResolves(k, o) ==
  /\ Resolvable(k, "list", o)
  /\ Succeeded(o) => reqs[k].phase = "answered"
  /\ o # "lost"
  /\ IF Succeeded(o)
       THEN /\ feedbackList' = reqs[k].data
            /\ UNCHANGED fbError
       ELSE /\ fbError' = IF Thrown(o) THEN "Error loading feedback"
                                       ELSE "Failed to load feedback history"
            /\ UNCHANGED feedbackList
  /\ fbLoading' = FALSE
  /\ reqs' = RemoveAt(reqs, k)
  /\ ev' = IF Succeeded(o)
             THEN [NoEv EXCEPT !.type = "list_done", !.snap = reqs[k].snap]
             ELSE NoEv
  /\ UNCHANGED <<backendVars, route, user, closetVars, outfitVars, srvSaved, srvFeedback, deletingId>>

\* The delete button of an entry is disabled while deletingId is that entry.
handleDelete(feedbackId, confirmed) ==
  /\ route = "/feedback-history"
  /\ \E i \in DOMAIN feedbackList : feedbackList[i] = feedbackId
  /\ deletingId # feedbackId
  /\ IF confirmed
       THEN /\ CanSend
            /\ deletingId' = feedbackId
            /\ reqs' = Append(reqs,
                 Request("feedback", "delete", feedbackId, NoUser, feedbackList))
       ELSE UNCHANGED <<deletingId, reqs>>
  /\ ev' = NoEv
  /\ UNCHANGED <<backendVars, route, user, closetVars, outfitVars, srvSaved, srvFeedback,
                 feedbackList, fbLoading, fbError>>

\* A handler that removes the entry whatever the answer.
afterDelete_Optimistic(prev, feedbackId, o) ==
  SelectSeq(prev, LAMBDA f : f # feedbackId)

\* if (result.success) setFeedbackList(prev => prev.filter(f => f.id !== feedbackId))
afterDelete(prev, feedbackId, o) ==
  IF Succeeded(o) THEN SelectSeq(prev, LAMBDA f : f # feedbackId) ELSE prev

\* A refresh in flight when a deletion is confirmed records the deleted id
\* (an observation: the code keeps no such record).
DeleteResolves(k, o) ==
  /\ Resolvable(k, "delete", o)
  /\ feedbackList' = afterDelete(feedbackList, reqs[k].arg, o)
  /\ deletingId' = NullId
  /\ reqs' = RemoveAt([j \in DOMAIN reqs |->
                         IF Succeeded(o) /\ reqs[j].kind = "list" /\ reqs[j].live
                           THEN [reqs[j] EXCEPT !.snap = Append(reqs[j].snap, reqs[k].arg)]
                           ELSE reqs[j]], k)
  /\ srvFeedback' = srvFeedbackAfter(reqs[k], o)
  /\ ev' = [NoEv EXCEPT !.type = "delete_done", !.id = reqs[k].arg,
              !.ok = Succeeded(o), !.snap = reqs[k].snap,
              !.alert = IF Succeeded(o) THEN "none"
                        ELSE IF Thrown(o) THEN "Error deleting feedback"
                        ELSE "Failed to delete feedback"]
  /\ UNCHANGED <<backendVars, route, user, closetVars, outfitVars, srvSaved, fbLoading, fbError>>

\* Clear All is rendered for a non-empty list and disabled while loading;
\* user.id of an absent user throws inside the try block.
handleClearAll(confirmed) ==
  /\ route = "/feedback-history"
  /\ feedbackList # <<>>
  /\ ~fbLoading
  /\ IF ~confirmed
       THEN /\ ev' = NoEv
            /\ UNCHANGED <<fbLoading, reqs>>
       ELSE IF user = NoUser
         THEN /\ ev' = [NoEv EXCEPT !.type = "clear_done", !.ok = FALSE,
                                    !.snap = feedbackList,
                                    !.alert = "Error clearing feedback"]
              /\ UNCHANGED <<fbLoading, reqs>>
         ELSE /\ CanSend
              /\ fbLoading' = TRUE
              /\ reqs' = Append(reqs, Request("feedback", "clear", user, user, feedbackList))
              /\ ev' = NoEv
  /\ UNCHANGED <<backendVars, route, user, closetVars, outfitVars, srvSaved, srvFeedback,
                 feedbackList, fbError, deletingId>>

ClearResolves(k, o) ==
  /\ Resolvable(k, "clear", o)
  /\ feedbackList' = IF Succeeded(o) THEN <<>> ELSE feedbackList
  /\ fbLoading' = FALSE
  /\ reqs' = RemoveAt(reqs, k)
  /\ srvFeedback' = srvFeedbackAfter(reqs[k], o)
  /\ ev' = [NoEv EXCEPT !.type = "clear_done", !.ok = Succeeded(o),
              !.snap = reqs[k].snap,
              !.alert = IF Succeeded(o) THEN "All feedback cleared successfully!"
                        ELSE IF Thrown(o) THEN "Error clearing feedback"
                        ELSE "Failed to clear feedback"]
  /\ UNCHANGED <<backendVars, route, user, closetVars, outfitVars, srvSaved, fbError, deletingId>>

\* --------------------------------------------------- routes of the two views
\* /feedback-history is opened by its URL: the page loads, the view mounts and
\* its effect calls fetchFeedback.
OpenFeedbackHistory ==
  /\ route = "/outfit"
  /\ CanSend
  /\ route' = "/feedback-history"
  /\ hasOutfit' = FALSE /\ loading' = FALSE /\ error' = Null
  /\ currentOutfit' = Null /\ scenario' = "" /\ isSaved' = FALSE
  /\ savedOutfitId' = NullId /\ swappingSlot' = Null /\ userFeedback' = Null
  /\ feedbackList' = <<>> /\ fbError' = Null /\ deletingId' = NullId
  /\ fbLoading' = (user # NoUser)
  /\ reqs' = IF user # NoUser THEN SendList(Detached(reqs)) ELSE Detached(reqs)
  /\ ev' = NoEv
  /\ UNCHANGED <<backendVars, user, closetVars, srvSaved, srvFeedback>>

\* navigate('/outfit') of the feedback history view.
BackToOutfit ==
  /\ route = "/feedback-history"
  /\ route' = "/outfit"
  /\ feedbackList' = <<>> /\ fbLoading' = FALSE /\ fbError' = Null /\ deletingId' = NullId
  /\ reqs' = Detached(reqs)
  /\ ev' = NoEv
  /\ UNCHANGED <<backendVars, user, closetVars, outfitVars, srvSaved, srvFeedback>>

NextViews ==
  \/ \E s \in Scenarios : setScenario(s)
  \/ handleRecommend
  \/ handleSaveOutfit
  \/ \E slot \in Slots : handleSwapItem(slot)
  \/ \E rating \in Ratings : handleFeedback(rating)
  \/ \E k \in DOMAIN reqs, o \in Outcomes, x \in Outfits : RecommendResolves(k, o, x)
  \/ \E k \in DOMAIN reqs, o \in Outcomes, d \in BOOLEAN : SaveResolves(k, o, d)
  \/ \E k \in DOMAIN reqs, o \in Outcomes : UnsaveResolves(k, o)
  \/ \E k \in DOMAIN reqs, o \in Outcomes, x \in Outfits : SwapResolves(k, o, x)
  \/ \E k \in DOMAIN reqs, o \in Outcomes : FeedbackResolves(k, o)
  \/ fetchFeedback
  \/ \E f \in 1..MaxFeedback, c \in BOOLEAN : handleDelete(f, c)
  \/ \E c \in BOOLEAN : handleClearAll(c)
  \/ \E k \in DOMAIN reqs : ServerAnswersList(k)
  \/ \E k \in DOMAIN reqs, o \in Outcomes : ListResolves(k, o)
  \/ \E k \in DOMAIN reqs, o \in Outcomes : DeleteResolves(k, o)
  \/ \E k \in DOMAIN reqs, o \in Outcomes : ClearResolves(k, o)
  \/ \E k \in DOMAIN reqs, o \in Outcomes : DetachedResolves(k, o)
  \/ OpenFeedbackHistory
  \/ BackToOutfit

SpecViews == ViewsInit /\ [][NextViews]_vars

\* ===================================================================
\* backend/app.py: the two wardrobe endpoints
\* ===================================================================
MaxRows == 2   \* wardrobe_items rows ever created

Absent == "absent"   \* request.form.get / request.args.get of a missing key
UserIds == Users \cup {Absent, ""}
Categories == {toLowerCase(tabs[i]) : i \in DOMAIN tabs}

\* An endpoint that takes any user_id.
not_user_id_Never(user_id) == FALSE

\* `not user_id`: None and the empty string are false in Python.
not_user_id(user_id) == user_id \in {Absent, ""}

UserIdRequired(endpoint, user_id) ==
  [endpoint |-> endpoint, user_id |-> user_id, status |-> 400, success |-> FALSE,
   data |-> <<>>]

Answer(endpoint, user_id, data) ==
  [endpoint |-> endpoint, user_id |-> user_id, status |-> 200, success |-> TRUE,
   data |-> data]

\* The row the upload endpoint stores for an accepted request.
insert_row(user_id, category) ==
  [id |-> Cardinality(srvItems) + 1, category |-> category, user_id |-> user_id]

\* POST /api/process-clothing
process_clothing(user_id, category) ==
  /\ user_id \in UserIds /\ category \in Categories
  /\ IF not_user_id(user_id)
       THEN /\ resp' = UserIdRequired("process-clothing", user_id)
            /\ UNCHANGED srvItems
       ELSE /\ Cardinality(srvItems) < MaxRows
            /\ srvItems' = srvItems \cup {insert_row(user_id, category)}
            /\ resp' = Answer("process-clothing", user_id,
                              <<insert_row(user_id, category).id>>)
  /\ ev' = NoEv
  /\ UNCHANGED <<route, user, closetVars, viewVars>>

\* GET /api/wardrobe/<category>
get_wardrobe_items(category, user_id) ==
  /\ user_id \in UserIds /\ category \in Categories
  /\ resp' = IF not_user_id(user_id)
               THEN UserIdRequired("wardrobe", user_id)
               ELSE Answer("wardrobe", user_id,
                      SortedIds({r.id : r \in {x \in srvItems :
                                   x.category = category /\ x.user_id = user_id}}))
  /\ ev' = NoEv
  /\ UNCHANGED <<route, user, closetVars, viewVars, srvItems>>

NextBackend ==
  \/ \E u \in UserIds, c \in Categories : process_clothing(u, c)
  \/ \E u \in UserIds, c \in Categories : get_wardrobe_items(c, u)

SpecBackend == InitApp /\ [][NextBackend]_vars

\* ===================================================================
\* Properties
\* ===================================================================

\* C1 (as stated): when a batch of the view ends, the visible list is as long
\* as it was when the batch started plus the number of files whose upload
\* call succeeded.
C1_CountAsStated ==
  (ended.n > 0 /\ ended.live) =>
     ended.endLen = ended.startLen + ended.succ

\* C1 (amended): when a batch ends in a view that stayed mounted, and no item
\* was deleted and the tab was not changed while it ran, the visible list is
\* as long as it was at the start plus the number of files uploaded and stored.
C1_CountUndisturbed ==
  (ended.n > 0 /\ ended.live /\ ended.clean) =>
     ended.endLen = ended.startLen + ended.stored

\* A two-file batch ended undisturbed on a non-empty list, one file stored and
\* the other failed.
C1_Witness ==
  /\ ended.n = 2 /\ ended.live /\ ended.clean
  /\ ended.startLen > 0 /\ ended.stored = 1 /\ ended.failed

\* C2 (as stated): a failed upload does not abort the batch, so when a batch
\* ends every one of its files has been submitted.
C2_AllSubmitted ==
  ended.n > 0 => ended.submitted = ended.n

\* C3 (as stated): at most one upload request is in flight at any moment.

C3_OneInFlight == Len(batches) <= 1

\* C4 (as stated): a confirmed delete of id x removes exactly one entry, the
\* one with id x, from the stored collection and from the visible list; every
\* other entry stays.
RemovedOne(before, after, x) ==
  \E p \in DOMAIN before :
     /\ before[p].id = x
     /\ after = [j \in 1..(Len(before) - 1) |-> IF j < p THEN before[j] ELSE before[j + 1]]
C4_DeleteExactlyOne ==
  [][(ev'.type = "delete" /\ ev'.ok) =>
       /\ RemovedOne(JSONparse(storage), JSONparse(storage'), ev'.id)
       /\ RemovedOne(uploadedItems, uploadedItems', ev'.id)]_vars

\* C5 (as stated): after a delete request that failed or was answered with
\* success:false (feedback entry, clear-all, unsave), the list and the saved
\* flag are what they were when the request was sent, and an alert or an error
\* is shown.
C5_AsBeforeRequest ==
  /\ (ev.type \in {"delete_done", "clear_done"} /\ ~ev.ok) =>
        (feedbackList = ev.snap /\ ev.alert # "none")
  /\ (ev.type = "unsave_done" /\ ~ev.ok) =>
        (<<isSaved, savedOutfitId>> = ev.snap /\ error # Null)

\* C5 (amended): sending a delete request changes neither the list nor the
\* saved flag, and handling its failure or its success:false answer leaves the
\* list and the saved flag as they were just before the answer was handled and
\* shows an alert (feedback) or sets the error (unsave).
C5_FailureKeepsState ==
  [][/\ (Len(reqs') = Len(reqs) + 1 /\
          reqs'[Len(reqs')].kind \in {"delete", "clear", "unsave"}) =>
            (feedbackList' = feedbackList /\ isSaved' = isSaved /\
             savedOutfitId' = savedOutfitId)
     /\ (ev'.type \in {"delete_done", "clear_done"} /\ ~ev'.ok) =>
            (feedbackList' = feedbackList /\ ev'.alert # "none")
     /\ (ev'.type = "unsave_done" /\ ~ev'.ok) =>
            (isSaved' = isSaved /\ savedOutfitId' = savedOutfitId /\ error' # Null)]_vars

\* The delete of a listed entry has just been answered with success:false: the
\* entry is still listed and the alert was shown.
C5_Witness ==
  /\ ev.type = "delete_done" /\ ~ev.ok
  /\ ev.alert = "Failed to delete feedback"
  /\ \E i \in DOMAIN feedbackList : feedbackList[i] = ev.id

\* C6: every change of the selected tab runs loadItems exactly once, for the
\* new category, and a successful load makes the visible list exactly the
\* stored items of that category.
C6_TabChangeLoads ==
  [][(route = "/closet" /\ route' = "/closet" /\ selectedTab' # selectedTab) =>
       /\ ev'.loads = <<toLowerCase(selectedTab')>>
       /\ (Truthy(storage) /\ ~ParseThrows(storage)) =>
             uploadedItems' = FilterCategory(JSONparse(storage), toLowerCase(selectedTab'))]_vars

\* A tab change has just replaced a non-empty list by another non-empty list of
\* the new category while items of a different category are stored.
C6_Witness ==
  /\ ev.type = "tab" /\ ev.loads # <<>> /\ ev.ok
  /\ uploadedItems # <<>>
  /\ \A i \in DOMAIN uploadedItems : uploadedItems[i].category = toLowerCase(selectedTab)
  /\ \E i \in DOMAIN JSONparse(storage) :
        JSONparse(storage)[i].category # toLowerCase(selectedTab)

\* C7 (as stated): after a load that failed the visible list is empty.
C7_FailedLoadEmpties ==
  (ev.type = "tab" /\ ev.loads # <<>> /\ ~ev.ok) => uploadedItems = <<>>

\* C8 (as stated): every request that reads or writes user-owned data carries
\* the id of an authenticated user.
C8_RequestsCarryUser ==
  /\ \A k \in DOMAIN reqs :
        reqs[k].kind \in {"recommend", "save", "swap", "feedback", "list"} =>
           reqs[k].user_id \in Users
  /\ \A k \in DOMAIN batches : UploadRequest(batches[k]).user_id \in Users

\* C9: an upload or a wardrobe listing request without a user id is answered
\* with status 400 and success false, returns no item and creates no row.
C9_NoUserIdRejected ==
  [][(resp'.endpoint # "none" /\ resp'.user_id \notin Users) =>
       /\ resp'.status = 400 /\ ~resp'.success
       /\ resp'.data = <<>>
       /\ srvItems' = srvItems]_vars

\* A listing without a user id has been refused while rows of the category are
\* stored.
C9_Witness ==
  /\ resp.endpoint = "wardrobe" /\ resp.user_id = Absent
  /\ resp.status = 400
  /\ srvItems # {}

\* C10 (as stated): the visible list of a signed-in user holds only items this
\* user uploaded.
C10_OnlyOwnItems ==
  user \in Users =>
    \A i \in DOMAIN uploadedItems : uploadedItems[i].by = user

\* C11 (as stated): the Virtual Closet view is never displayed while no user
\* is authenticated.
C11_ClosetNeedsUser ==
  route = "/closet" => user \in Users

\* C12 (as stated): a successful sign-in through the auth modal leaves the user
\* on the Virtual Closet view.
C12_SignInOpensCloset ==
  ev.type = "signin" => route = "/closet"

\* C13 (as stated): every failed mutation request (upload, item delete, save,
\* unsave, swap, feedback, feedback delete, clear-all) raises an alert or sets
\* the error banner.
C13_FailuresAreShown ==
  (ev.type \in {"resolve", "reject", "delete", "save_done", "unsave_done",
                "swap_done", "feedback_done", "delete_done", "clear_done"}
     /\ ~ev.ok)
    => (ev.alert # "none" \/ (ev.banner /\ error # Null))

Reverse(xs) == [j \in 1..Len(xs) |-> xs[Len(xs) + 1 - j]]

\* C15 (as stated): a successful upload creates exactly one item, of the
\* lower-cased category of the selected tab, at the head of the visible list
\* ahead of the items already there; when a batch whose uploads all succeeded
\* ends, its items stand in reverse file order ahead of the old items.
C15_PrependedInOrder ==
  [][/\ \A k \in DOMAIN batches :
          (UploadResolves(k) /\ ev'.type = "resolve" /\ ev'.ok) =>
             /\ uploadedItems' # <<>>
             /\ uploadedItems' = <<uploadedItems'[1]>> \o uploadedItems
             /\ uploadedItems'[1].category = toLowerCase(selectedTab)
             /\ uploadedItems'[1].file_name = batches[k].files[batches[k].i]
             /\ JSONparse(storage') = <<uploadedItems'[1]>> \o JSONparse(storage)
     /\ (ended'.n > 0 /\ ~ended'.failed) =>
          uploadedItems' = Reverse(ended'.made) \o ended'.startList]_vars

\* C15 (amended): in a view that stays mounted, a successful upload creates
\* exactly one item, of the lower-cased category of the tab that was selected
\* when the batch started, at the head of the visible list and of the stored
\* collection; when a batch whose uploads all succeeded ends, and no item was
\* deleted and no tab changed while it ran, its items stand in reverse file
\* order ahead of the items listed when it started.
C15_PrependedInOrderUndisturbed ==
  [][/\ \A k \in DOMAIN batches :
          (UploadResolves(k) /\ ev'.type = "resolve" /\ ev'.ok /\ batches[k].live) =>
             /\ uploadedItems' # <<>>
             /\ uploadedItems' = <<uploadedItems'[1]>> \o uploadedItems
             /\ uploadedItems'[1].category = toLowerCase(batches[k].tab)
             /\ uploadedItems'[1].file_name = batches[k].files[batches[k].i]
             /\ JSONparse(storage') = <<uploadedItems'[1]>> \o JSONparse(storage)
     /\ (ended'.n > 0 /\ ~ended'.failed /\ ended'.live /\ ended'.clean) =>
          uploadedItems' = Reverse(ended'.made) \o ended'.startList]_vars

\* A two-file batch has ended undisturbed on a non-empty list with both of its
\* items, the second file's first, ahead of the old items.
C15_Witness ==
  /\ ended.n = 2 /\ ~ended.failed /\ ended.live /\ ended.clean
  /\ ended.startList # <<>>
  /\ Len(ended.made) = 2
  /\ uploadedItems = <<ended.made[2], ended.made[1]>> \o ended.startList

\* C16: a save that returns a record stores that record's id; the unsave
\* request targets exactly the stored id; a successful unsave leaves isSaved
\* false and savedOutfitId null with the record gone; the saved id changes only
\* by these steps or by a reset to null; and a saved record is created only by
\* a save request, which only the Save button of an unsaved outfit sends.
C16_SaveUnsaveRoundTrip ==
  [][/\ (ev'.type = "save_done" /\ ev'.ok) =>
          /\ isSaved' /\ savedOutfitId' = ev'.id
          /\ \E rec \in srvSaved' \ srvSaved : rec.id = ev'.id
     /\ (Len(reqs') = Len(reqs) + 1 /\ reqs'[Len(reqs')].kind = "unsave") =>
          /\ isSaved /\ savedOutfitId # NullId
          /\ reqs'[Len(reqs')].arg = savedOutfitId
     /\ (ev'.type = "unsave_done" /\ ev'.ok) =>
          /\ ~isSaved' /\ savedOutfitId' = NullId
          /\ \A rec \in srvSaved' : rec.id # ev'.id
     /\ savedOutfitId' # savedOutfitId =>
          (savedOutfitId' = NullId \/ (ev'.type = "save_done" /\ ev'.ok))
     /\ (srvSaved' \ srvSaved # {}) =>
          \E k \in DOMAIN reqs : reqs[k].kind = "save" /\ reqs' = RemoveAt(reqs, k)
     /\ (Len(reqs') = Len(reqs) + 1 /\ reqs'[Len(reqs')].kind = "save") =>
          /\ route = "/outfit" /\ hasOutfit
          /\ ~(isSaved /\ savedOutfitId # NullId)]_vars

\* The unsave of the saved outfit has just succeeded: the view is unsaved and
\* the record the save created is gone.
C16_Witness ==
  /\ ev.type = "unsave_done" /\ ev.ok /\ ev.id # NullId
  /\ ev.snap = <<TRUE, ev.id>>
  /\ ~isSaved /\ savedOutfitId = NullId
  /\ \A rec \in srvSaved : rec.id # ev.id

StatusRank(status) ==
  CASE status = "pending" -> 0
    [] status = "uploading" -> 1
    [] OTHER -> 2

\* C17 (as stated): the status of a progress entry only moves forward along
\* pending, uploading, completed or failed, and when a batch ends every
\* submitted file whose upload succeeded has been marked completed and the
\* file whose upload failed has been marked failed.
C17_ProgressMarksOutcome ==
  [][/\ \A j \in DOMAIN uploadProgress \cap DOMAIN uploadProgress' :
          StatusRank(uploadProgress'[j].status) >= StatusRank(uploadProgress[j].status)
     /\ (ended'.n > 0 /\ ended'.live) =>
          /\ Len(ended'.prog) = ended'.submitted
          /\ \A j \in DOMAIN ended'.prog :
                ended'.prog[j].status =
                  IF j <= ended'.succ THEN "completed" ELSE "failed"]_vars

\* C18: whenever uploading is false the progress list is empty, after a batch
\* that succeeded as after one that failed.
C18_ProgressOnlyInBatch ==
  ~uploading => uploadProgress = <<>>

\* A batch has just ended in failure: its progress entries were discarded.
C18_Witness ==
  /\ ended.n > 0 /\ ended.live /\ ended.failed
  /\ ended.prog # <<>>
  /\ ~uploading /\ uploadProgress = <<>>

\* C19: when every upload request settles, a batch in progress eventually ends
\* with uploading false and no batch left; and uploading goes from true to
\* false only in the step that ends a batch, so an unsettled request keeps the
\* view in the uploading state.
C19_BatchEnds ==
  /\ (uploading ~> (~uploading /\ batches = <<>>))
  /\ [][(uploading /\ ~uploading') => ended'.n > 0]_vars

\* A two-file batch has run to its end and the view is idle again.
C19_Witness ==
  /\ ended.n = 2 /\ ended.submitted = 2 /\ ended.live
  /\ ~uploading /\ batches = <<>>

\* C20 (as stated): an upload leaves every item stored or listed before it in
\* place behind the new one, and a delete leaves every item other than the
\* deleted one stored and listed, with the same fields and in the same order.
C20_OthersUntouched ==
  [][/\ (ev'.type = "resolve" /\ ev'.ok) =>
          /\ Len(JSONparse(storage')) = Len(JSONparse(storage)) + 1
          /\ SubSeq(JSONparse(storage'), 2, Len(JSONparse(storage'))) = JSONparse(storage)
          /\ Len(uploadedItems') = Len(uploadedItems) + 1
          /\ SubSeq(uploadedItems', 2, Len(uploadedItems')) = uploadedItems
     /\ (ev'.type = "delete" /\ ev'.ok) =>
          /\ \E p \in DOMAIN JSONparse(storage) :
                /\ JSONparse(storage)[p].id = ev'.id
                /\ JSONparse(storage') = RemoveAt(JSONparse(storage), p)
          /\ \E p \in DOMAIN uploadedItems :
                /\ uploadedItems[p].id = ev'.id
                /\ uploadedItems' = RemoveAt(uploadedItems, p)]_vars

\* C21: the stored collection changes only by the write of an upload
\* completion, which adds the new item in front of everything stored just
\* before, or by the write of a delete, which removes the entries of the
\* deleted id from what was stored just before and adds nothing: no stored
\* item is lost and no deleted item comes back, whatever the interleaving.
C21_StoreUpdatesAtomic ==
  [][storage' # storage =>
       \/ /\ ev'.type = "resolve" /\ ev'.ok
          /\ Len(JSONparse(storage')) = Len(JSONparse(storage)) + 1
          /\ JSONparse(storage')[1].id = ev'.id
          /\ SubSeq(JSONparse(storage'), 2, Len(JSONparse(storage'))) = JSONparse(storage)
       \/ /\ ev'.type = "delete" /\ ev'.ok
          /\ JSONparse(storage') = FilterOutId(JSONparse(storage), ev'.id)]_vars

\* A delete has just run between two upload completions of a batch, and an
\* item is still stored.
C21_Witness ==
  /\ ev.type = "delete" /\ ev.ok
  /\ batches # <<>> /\ batches[1].made # <<>>
  /\ JSONparse(storage) # <<>>

\* C22: in every state every item of the visible list has the category of
\* the selected tab, lower-cased, and the visible list is the stored items
\* of that category in storage order, also after a tab change during a batch.
C22_VisibleIsStoredOfTab ==
  /\ \A i \in DOMAIN uploadedItems :
        uploadedItems[i].category = toLowerCase(selectedTab)
  /\ uploadedItems = FilterCategory(JSONparse(storage), toLowerCase(selectedTab))

\* C23: any two entries of the stored collection have different ids, be
\* they created in one batch or in two.
C23_DistinctIds ==
  \A i, j \in DOMAIN JSONparse(storage) :
    i # j => JSONparse(storage)[i].id # JSONparse(storage)[j].id

\* C24: in the outfit view isSaved is true exactly when savedOutfitId is not
\* null, also after a save answer that reports success with no data.
C24_SavedIffId ==
  isSaved <=> savedOutfitId # NullId

\* C25: in the outfit view isSaved is true exactly when the backend holds a
\* record with id savedOutfitId whose outfit is the displayed one, also after
\* a swap and after a regenerate that failed.
C25_SavedAgreesWithBackend ==
  isSaved <=> \E rec \in srvSaved :
                /\ rec.id = savedOutfitId
                /\ rec.outfit = currentOutfit

\* C26: when the answer of a recommend request is displayed and no other
\* recommend request is in flight any more, no request issued after it has
\* had its answer displayed before: the outfit shown is the answer to the
\* request issued last.
C26_LatestResponseShown ==
  (/\ ev.type = "recommend_done" /\ ev.ok
   /\ \A k \in DOMAIN reqs : ~(reqs[k].kind = "recommend" /\ reqs[k].live))
    => ev.snap # <<"overtaken">>

\* C27: the j-th progress entry of a batch is the entry of its j-th file, and
\* it is completed only when the upload of that file has succeeded, during
\* the batch and in the list the batch ends with, also when names repeat.
C27_CompletedAfterOwnUpload ==
  /\ \A k \in DOMAIN batches :
        batches[k].live =>
          \A j \in DOMAIN uploadProgress :
            /\ j <= Len(batches[k].files)
            /\ uploadProgress[j].name = batches[k].files[j]
            /\ uploadProgress[j].status = "completed" => j <= batches[k].succ
  /\ (\A k \in DOMAIN batches : ~batches[k].live) =>
        \A j \in DOMAIN uploadProgress : uploadProgress[j].status # "completed"
  /\ ended.live =>
        \A j \in DOMAIN ended.prog :
          ended.prog[j].status = "completed" => j <= ended.succ

\* The first of two files of the same name is completed and the second one
\* is still being uploaded.
C27_Witness ==
  \E k \in DOMAIN batches :
    /\ batches[k].live
    /\ batches[k].files = <<"a.jpg", "a.jpg">>
    /\ Len(uploadProgress) = 2
    /\ uploadProgress[1].status = "completed"
    /\ uploadProgress[2].status = "uploading"

\* C28: an entry whose deletion the backend confirmed while a refresh was in
\* flight, and which the backend no longer holds, is not in the feedback
\* list when the answer of that refresh has been applied.
C28_DeletedStaysGone ==
  (ev.type = "list_done") =>
    \A j \in DOMAIN ev.snap :
      (\E i \in DOMAIN feedbackList : feedbackList[i] = ev.snap[j])
        => \E f \in srvFeedback : f.id = ev.snap[j]
====
